---- MODULE Spec2Model ----
(***************************************************************************)
(* A model of the single-node ledger of this repository: Transaction,      *)
(* Block and Blockchain, in the two versions the repository holds:         *)
(*   "js" : src/src/blockchain.js  (the one src/src/main.js drives)        *)
(*   "p0" : src/unnamed/part_000                                           *)
(* Strings are sequences of tokens, so that the string concatenation the   *)
(* two calculateHash methods perform is a concatenation here too.  A       *)
(* SHA-256 digest is the token "sha256" followed by the hashed string: two *)
(* digests are equal exactly when the hashed strings are.                  *)
(***************************************************************************)
EXTENDS Integers, Sequences, FiniteSets, TLC

VARIABLES variant, now, chain, pendingTransactions, last, tx, blk, target,
          arrays, poolRef, txRefs

vars == <<variant, now, chain, pendingTransactions, last, tx, blk, target,
          arrays, poolRef, txRefs>>

(* ------------------------------ bounds --------------------------------- *)
MaxTime == 1
MaxChain == 3
MaxPool == 2
MaxDifficulty == 5

(* ------------------------- program constants --------------------------- *)
difficulty == 4
mineReward == 100

Variants == {"js", "p0"}

(* ----------------------------- JS values ------------------------------- *)
\* null and undefined where a string is expected (sender, recipient)
NULL == "<null>"
\* undefined where a number is expected (Block.index, Block.nonce)
undefinedNum == -1
\* a signature field that was never set, one that holds null
UndefSig == <<"<undefined>">>
NullSig == <<"<null>">>
\* a hash field that holds null (part_000 builds its blocks with hash null)
NullHash == <<"<null>">>

DigitChar(n) ==
  CASE n = 0 -> "0" [] n = 1 -> "1" [] n = 2 -> "2" [] n = 3 -> "3" [] n = 4 -> "4"
    [] n = 5 -> "5" [] n = 6 -> "6" [] n = 7 -> "7" [] n = 8 -> "8" [] OTHER -> "9"

RECURSIVE NumStr(_)
\* String(n) for an integer n, as JS's + does when the other operand is a string
NumStr(n) ==
  IF n < 0 THEN <<"-">> \o NumStr(0 - n)
  ELSE IF n < 10 THEN <<DigitChar(n)>>
  ELSE NumStr(n \div 10) \o <<DigitChar(n % 10)>>

\* a number or undefined in a string concatenation
NumOrUndefStr(n) == IF n = undefinedNum THEN <<"undefined">> ELSE NumStr(n)

\* a string, null or undefined in a string concatenation
StrOrNull(s) == IF s = NULL THEN <<"null">> ELSE <<s>>

(* ------------------------------ SHA-256 -------------------------------- *)
\* crypto.createHash('sha256').update(s).digest('hex')
sha256(s) == <<"sha256">> \o s

IsDigest(h) == Len(h) > 0 /\ h[1] = "sha256"

CharVal(c) ==
  CASE c = "0" -> 0 [] c = "1" -> 1 [] c = "2" -> 2 [] c = "3" -> 3 [] c = "4" -> 4
    [] c = "5" -> 5 [] c = "6" -> 6 [] c = "7" -> 7 [] c = "8" -> 8 [] c = "9" -> 9
    [] c = "undefined" -> 3 [] c = "sha256" -> 1 [] OTHER -> 2

RECURSIVE CharSum(_)
CharSum(s) == IF s = <<>> THEN 0 ELSE CharVal(Head(s)) + CharSum(Tail(s))

RECURSIVE PlainLeadingOnes(_)
PlainLeadingOnes(s) ==
  IF s = <<>> \/ Head(s) # "1" THEN 0 ELSE 1 + PlainLeadingOnes(Tail(s))

\* how many leading '1' a digest starts with: a fixed function of the hashed
\* string.  One residue in eight gives a run of four or more, and adding 1 to
\* the last digit of the hashed string moves through all residues.
DigestLeadingOnes(h) ==
  LET r == CharSum(h) % 8
  IN  CASE r = 1 -> 1 [] r = 3 -> 2 [] r = 5 -> 3 [] r = 6 -> 1 [] r = 7 -> 6
        [] OTHER -> 0

\* how many leading characters of the hex string h are '1'
LeadingOnes(h) == IF IsDigest(h) THEN DigestLeadingOnes(h) ELSE PlainLeadingOnes(h)

\* h.substring(0, d) === Array(d + 1).join('1')
MeetsTarget(h, d) == LeadingOnes(h) >= d

(* --------------------------- elliptic (ec) ----------------------------- *)
KeyPairs == {"a", "b"}

\* key.getPublic('hex')
getPublic(k) == IF k = "a" THEN "A" ELSE "B"

\* the strings that decode to a point of the curve
IsPoint(s) == s \in {"A", "B"}

\* ec.sign(msg, key).toDER('hex'): deterministic (RFC 6979)
ec_sign(msg, k) == <<"der", k>> \o msg

SigKey(sig) == sig[2]
SigMsg(sig) == SubSeq(sig, 3, Len(sig))

\* ec.keyFromPublic(pub, 'hex').verify(msg, sig): "true", "false" or "throw".
\* keyFromPublic throws on a string that is no point ('Unknown point format') and
\* imports nothing from null; verify throws on a signature that is no DER string
\* (undefined or null) and on a key that holds no public point.
ec_verify(pub, msg, sig) ==
  IF pub # NULL /\ ~IsPoint(pub) THEN "throw"
  ELSE IF sig = UndefSig \/ sig = NullSig THEN "throw"
  ELSE IF pub = NULL THEN "throw"
  ELSE IF getPublic(SigKey(sig)) = pub /\ SigMsg(sig) = msg THEN "true"
  ELSE "false"

(* ---------------------------- Transaction ----------------------------- *)
\* new Transaction(sender, recipient, amount) at clock reading t (blockchain.js):
\* no signature field is set
Transaction_js(sender, recipient, amount, t) ==
  [sender |-> sender, recipient |-> recipient, amount |-> amount,
   timestamp |-> t, signature |-> UndefSig]

\* new Transaction(sender, recipient, amount) at clock reading t (part_000):
\* signature starts as null
Transaction_p0(sender, recipient, amount, t) ==
  [sender |-> sender, recipient |-> recipient, amount |-> amount,
   timestamp |-> t, signature |-> NullSig]

Transaction(v, sender, recipient, amount, t) ==
  IF v = "js" THEN Transaction_js(sender, recipient, amount, t)
  ELSE Transaction_p0(sender, recipient, amount, t)

\* Transaction.calculateHash(): the same in both versions
Transaction_calculateHash(t) ==
  sha256(StrOrNull(t.sender) \o StrOrNull(t.recipient)
         \o NumStr(t.amount) \o NumStr(t.timestamp))

\* signTransaction(privateKey) of blockchain.js, called with the key pair k
signTransaction_js(t, k) ==
  IF getPublic(k) # t.sender
    THEN [outcome |-> "throw", tx |-> t]
    ELSE [outcome |-> "return",
          tx |-> [t EXCEPT !.signature = ec_sign(Transaction_calculateHash(t), k)]]

\* signTransaction(privateKey) of part_000, called with the private key string k:
\* it compares the private key itself with the sender, and only logs otherwise
signTransaction_p0(t, k) ==
  IF k = t.sender
    THEN [outcome |-> "return",
          tx |-> [t EXCEPT !.signature = ec_sign(Transaction_calculateHash(t), k)]]
    ELSE [outcome |-> "return", tx |-> t]

signTransaction(v, t, k) ==
  IF v = "js" THEN signTransaction_js(t, k) ELSE signTransaction_p0(t, k)

\* Transaction.isValid() of blockchain.js: "true", "false" or "throw"
isValid_js(t) ==
  IF t.signature = NullSig THEN "true"
  ELSE ec_verify(t.sender, Transaction_calculateHash(t), t.signature)

\* Transaction.isValid() of part_000
isValid_p0(t) ==
  IF t.signature = NullSig THEN "false"
  ELSE ec_verify(t.sender, Transaction_calculateHash(t), t.signature)

isValid(v, t) == IF v = "js" THEN isValid_js(t) ELSE isValid_p0(t)

(* ------------------------------- Block --------------------------------- *)
\* a hash field in a string concatenation
HashStr(h) == IF h = NullHash THEN <<"null">> ELSE h

\* Block.calculateHash(): the same in both versions; the transactions are not hashed
Block_calculateHash(b) ==
  sha256(NumOrUndefStr(b.index) \o HashStr(b.previousHash)
         \o NumStr(b.timestamp) \o NumOrUndefStr(b.nonce))

\* new Block(previousHash, transactions, timestamp) of blockchain.js: index is never
\* set, and hash is computed before nonce is set
Block_js(previousHash, transactions, timestamp) ==
  LET b0 == [index |-> undefinedNum, previousHash |-> previousHash,
             transactions |-> transactions, timestamp |-> timestamp,
             hash |-> NullHash, nonce |-> undefinedNum]
  IN  [b0 EXCEPT !.hash = Block_calculateHash(b0), !.nonce = 1]

\* new Block(index, previousHash, transactions, timestamp, hash, nonce) of part_000
Block_p0(index, previousHash, transactions, timestamp, hash, nonce) ==
  [index |-> index, previousHash |-> previousHash, transactions |-> transactions,
   timestamp |-> timestamp, hash |-> hash, nonce |-> nonce]

RECURSIVE mineLoop(_, _)
\* while (hash.substring(0, d) !== '1'.repeat(d)) { nonce++; hash = calculateHash() }
mineLoop(b, d) ==
  IF MeetsTarget(b.hash, d) THEN b
  ELSE LET b1 == [b EXCEPT !.nonce = b.nonce + 1]
       IN  mineLoop([b1 EXCEPT !.hash = Block_calculateHash(b1)], d)

\* Block.mineBlock(difficulty) of blockchain.js: this.hash?.substring
mineBlock_js(b, d) == [outcome |-> "return", block |-> mineLoop(b, d)]

\* Block.mineBlock(difficulty) of part_000: this.hash.substring throws on a null hash
mineBlock_p0(b, d) ==
  IF b.hash = NullHash THEN [outcome |-> "throw", block |-> b]
  ELSE [outcome |-> "return", block |-> mineLoop(b, d)]

mineBlock(v, b, d) == IF v = "js" THEN mineBlock_js(b, d) ELSE mineBlock_p0(b, d)

RECURSIVE allValid(_, _)
\* for (const tx of txs) if (!tx.isValid()) return false; return true
allValid(v, txs) ==
  IF txs = <<>> THEN "true"
  ELSE LET r == isValid(v, Head(txs))
       IN  IF r = "true" THEN allValid(v, Tail(txs)) ELSE r

\* Block.hasValidTransactions(): "true", "false", or "throw" when an isValid() throws
hasValidTransactions(v, b) == allValid(v, b.transactions)

(* ----------------------------- Blockchain ------------------------------ *)
\* createGenesisBlock() at clock reading t
createGenesisBlock_js(t) == Block_js(<<"0">>, <<>>, t)

createGenesisBlock_p0(t) == Block_p0(0, <<"0">>, <<>>, t, <<"0">>, 0)

createGenesisBlock(v, t) ==
  IF v = "js" THEN createGenesisBlock_js(t) ELSE createGenesisBlock_p0(t)

\* getLatestBlock() returning the first block of the chain instead of the last
getLatestBlock_first(ch) == ch[1]

\* getLatestBlock()
getLatestBlock(ch) == ch[Len(ch)]

RECURSIVE balanceOfTxs_noDebit(_, _, _)
\* the inner loop with the sender's branch lost: amounts sent are not taken off
balanceOfTxs_noDebit(txs, address, balance) ==
  IF txs = <<>> THEN balance
  ELSE LET t  == Head(txs)
           b2 == IF t.recipient = address THEN balance + t.amount ELSE balance
       IN  balanceOfTxs_noDebit(Tail(txs), address, b2)

RECURSIVE balanceOfTxs_elseCredit(_, _, _)
\* the inner loop with the recipient's test in an else branch of the sender's: a
\* transfer to oneself is only taken off
balanceOfTxs_elseCredit(txs, address, balance) ==
  IF txs = <<>> THEN balance
  ELSE LET t  == Head(txs)
           b1 == IF t.sender = address THEN balance - t.amount
                 ELSE IF t.recipient = address THEN balance + t.amount
                 ELSE balance
       IN  balanceOfTxs_elseCredit(Tail(txs), address, b1)

RECURSIVE balanceOfTxs(_, _, _)
\* the inner loop of getBalanceOfAddress over one block's transactions
balanceOfTxs(txs, address, balance) ==
  IF txs = <<>> THEN balance
  ELSE LET t  == Head(txs)
           b1 == IF t.sender = address THEN balance - t.amount ELSE balance
           b2 == IF t.recipient = address THEN b1 + t.amount ELSE b1
       IN  balanceOfTxs(Tail(txs), address, b2)

RECURSIVE balanceOfBlocks(_, _, _)
balanceOfBlocks(ch, address, balance) ==
  IF ch = <<>> THEN balance
  ELSE balanceOfBlocks(Tail(ch), address,
                       balanceOfTxs(Head(ch).transactions, address, balance))

\* getBalanceOfAddress(address)
getBalanceOfAddress(ch, address) == balanceOfBlocks(ch, address, 0)

\* addTransaction with the balance gate taking off what the sender already has
\* pending in the pool
addTransaction_reserving(v, ch, pool, t) ==
  LET r == isValid(v, t)
  IN  IF r = "throw" THEN [outcome |-> "throw", pendingTransactions |-> pool]
      ELSE IF r = "false" THEN [outcome |-> "return", pendingTransactions |-> pool]
      ELSE IF t.amount <= 0 THEN [outcome |-> "return", pendingTransactions |-> pool]
      ELSE IF balanceOfTxs(pool, t.sender, getBalanceOfAddress(ch, t.sender)) < t.amount
        THEN [outcome |-> "return", pendingTransactions |-> pool]
      ELSE [outcome |-> "return", pendingTransactions |-> Append(pool, t)]

\* addTransaction(transaction): the outcome and the pool afterwards
addTransaction(v, ch, pool, t) ==
  LET r == isValid(v, t)
  IN  IF r = "throw" THEN [outcome |-> "throw", pendingTransactions |-> pool]
      ELSE IF r = "false" THEN [outcome |-> "return", pendingTransactions |-> pool]
      ELSE IF t.amount <= 0 THEN [outcome |-> "return", pendingTransactions |-> pool]
      ELSE IF getBalanceOfAddress(ch, t.sender) < t.amount
        THEN [outcome |-> "return", pendingTransactions |-> pool]
      ELSE [outcome |-> "return", pendingTransactions |-> Append(pool, t)]

\* minePendingTransactions of blockchain.js with its last assignment lost: the
\* pool is not emptied once its transactions are in the block
minePendingTransactions_js_keepPool(ch, pool, miningRewardAddress, t) ==
  LET rewardTx == Transaction_js(NULL, miningRewardAddress, mineReward, t)
      pushed   == Append(pool, rewardTx)
      block    == Block_js(getLatestBlock(ch).hash, pushed, t)
      mined    == mineBlock_js(block, difficulty)
  IN  [outcome |-> "return", chain |-> Append(ch, mined.block),
       pendingTransactions |-> pool]

\* minePendingTransactions(miningRewardAddress) of blockchain.js at clock reading t
minePendingTransactions_js(ch, pool, miningRewardAddress, t) ==
  LET rewardTx == Transaction_js(NULL, miningRewardAddress, mineReward, t)
      pushed   == Append(pool, rewardTx)
      block    == Block_js(getLatestBlock(ch).hash, pushed, t)
      mined    == mineBlock_js(block, difficulty)
  IN  [outcome |-> "return", chain |-> Append(ch, mined.block),
       pendingTransactions |-> <<>>]

\* minePendingTransactions(miningRewardAddress) of part_000: the block is built with
\* hash null, so mineBlock throws after the reward was pushed to the pool
minePendingTransactions_p0(ch, pool, miningRewardAddress, t) ==
  LET rewardTx == Transaction_p0(NULL, miningRewardAddress, mineReward, t)
      pushed   == Append(pool, rewardTx)
      block    == Block_p0(getLatestBlock(ch).index + 1, getLatestBlock(ch).hash,
                           pushed, t, NullHash, 0)
      mined    == mineBlock_p0(block, difficulty)
  IN  IF mined.outcome = "throw"
        THEN [outcome |-> "throw", chain |-> ch, pendingTransactions |-> pushed]
        ELSE [outcome |-> "return", chain |-> Append(ch, mined.block),
              pendingTransactions |-> <<>>]

minePendingTransactions(v, ch, pool, miningRewardAddress, t) ==
  IF v = "js" THEN minePendingTransactions_js(ch, pool, miningRewardAddress, t)
  ELSE minePendingTransactions_p0(ch, pool, miningRewardAddress, t)

\* JSON.stringify of a transaction: a field that is undefined is left out
JSON_tx(t) ==
  <<"{sender:">> \o StrOrNull(t.sender) \o <<"recipient:", t.recipient, "amount:">>
    \o NumStr(t.amount) \o <<"timestamp:">> \o NumStr(t.timestamp)
    \o (IF t.signature = UndefSig THEN <<>>
        ELSE <<"signature:">> \o (IF t.signature = NullSig THEN <<"null">>
                                  ELSE t.signature))
    \o <<"}">>

RECURSIVE JSON_txs(_)
JSON_txs(txs) == IF txs = <<>> THEN <<>> ELSE JSON_tx(Head(txs)) \o JSON_txs(Tail(txs))

\* JSON.stringify of a block: a field that is undefined is left out
JSON_stringify(b) ==
  <<"{">> \o (IF b.index = undefinedNum THEN <<>> ELSE <<"index:">> \o NumStr(b.index))
    \o <<"previousHash:">> \o HashStr(b.previousHash)
    \o <<"transactions:[">> \o JSON_txs(b.transactions) \o <<"]">>
    \o <<"timestamp:">> \o NumStr(b.timestamp)
    \o <<"hash:">> \o HashStr(b.hash)
    \o (IF b.nonce = undefinedNum THEN <<>> ELSE <<"nonce:">> \o NumStr(b.nonce))
    \o <<"}">>

RECURSIVE validFrom_noTxCheck(_, _, _)
\* the loop of isChainValid with the hasValidTransactions() test lost
validFrom_noTxCheck(v, ch, i) ==
  IF i > Len(ch) THEN "true"
  ELSE LET currentBlock  == ch[i]
           previousBlock == ch[i - 1]
       IN  IF currentBlock.hash # Block_calculateHash(currentBlock) THEN "false"
           ELSE IF currentBlock.previousHash # previousBlock.hash THEN "false"
           ELSE validFrom_noTxCheck(v, ch, i + 1)

RECURSIVE validFrom(_, _, _)
\* the loop of isChainValid from position i (1-based; the code's i is i - 1)
validFrom(v, ch, i) ==
  IF i > Len(ch) THEN "true"
  ELSE LET currentBlock  == ch[i]
           previousBlock == ch[i - 1]
           hv            == hasValidTransactions(v, currentBlock)
       IN  IF hv # "true" THEN hv
           ELSE IF currentBlock.hash # Block_calculateHash(currentBlock) THEN "false"
           ELSE IF currentBlock.previousHash # previousBlock.hash THEN "false"
           ELSE validFrom(v, ch, i + 1)

\* isChainValid() at clock reading t: "true", "false" or "throw"
isChainValid(v, ch, t) ==
  IF JSON_stringify(createGenesisBlock(v, t)) # JSON_stringify(ch[1]) THEN "false"
  ELSE validFrom(v, ch, 2)

(* --------------------------- the callers' inputs ------------------------ *)
\* senders: a public key and the absent sender
Senders == {"A", NULL}
Recipients == {"A", "B"}
Amounts == {0, 60}
\* "C" is an address that is no public key (main.js uses 'address2')
RewardAddresses == {"A", "C"}
Addresses == {"A", "B", "C", NULL}

\* the transactions a caller can hand over at clock reading t: built by the
\* constructor at that reading, and then signed or not with signTransaction
BuiltTransactions(v, t) ==
  { Transaction(v, s, r, a, t) : s \in Senders, r \in Recipients, a \in Amounts }

TxInputs(v, t) ==
  BuiltTransactions(v, t)
    \cup { signTransaction(v, x, k).tx : x \in BuiltTransactions(v, t), k \in KeyPairs }

(* ------------------------------ the ledger ----------------------------- *)
\* variant, now, chain and pendingTransactions are the program's state; last, tx,
\* blk and target belong to the callers of the unit specifications further down.
\* arrays, poolRef and txRefs are the array objects behind the pool and the
\* blocks' transaction lists; only the specification SpecRefs further down moves
\* them.  The queries (getBalanceOfAddress, isChainValid) change nothing: they
\* are the operators above, evaluated in the state they are called in.  The
\* callers' transactions are built when the ledger is, and handed over then or
\* later.
Init ==
  /\ variant \in Variants
  /\ now = 0
  /\ chain = <<createGenesisBlock(variant, 0)>>
  /\ pendingTransactions = <<>>
  /\ last = [op |-> "new", outcome |-> "return"]
  /\ tx = <<>>
  /\ blk = <<>>
  /\ target = 0
  /\ arrays = <<<<>>, <<>>>>
  /\ poolRef = 2
  /\ txRefs = <<1>>

\* Date.now() moves on
Tick ==
  /\ now < MaxTime
  /\ now' = now + 1
  /\ UNCHANGED <<variant, chain, pendingTransactions, last, tx, blk, target,
                 arrays, poolRef, txRefs>>

AddTransaction(t) ==
  LET r == addTransaction(variant, chain, pendingTransactions, t)
  IN  /\ Len(r.pendingTransactions) <= MaxPool
      /\ pendingTransactions' = r.pendingTransactions
      /\ UNCHANGED <<variant, now, chain, last, tx, blk, target,
                     arrays, poolRef, txRefs>>

MinePendingTransactions(a) ==
  LET r == minePendingTransactions(variant, chain, pendingTransactions, a, now)
  IN  /\ Len(r.chain) <= MaxChain
      /\ Len(r.pendingTransactions) <= MaxPool
      /\ chain' = r.chain
      /\ pendingTransactions' = r.pendingTransactions
      /\ UNCHANGED <<variant, now, last, tx, blk, target,
                     arrays, poolRef, txRefs>>

Next ==
  \/ Tick
  \/ \E t \in TxInputs(variant, 0) : AddTransaction(t)
  \/ \E a \in RewardAddresses : MinePendingTransactions(a)

Spec == Init /\ [][Next]_vars

(* ------------------------ claims about the ledger ---------------------- *)
\* C1: on a ledger changed only through addTransaction and
\* minePendingTransactions, isChainValid() returns true in every reachable
\* state, at whatever later time it is called.
C1_AlwaysValid == isChainValid(variant, chain, now) = "true"

\* a gate of addTransaction turns t away in the present state
GateCloses(t) ==
  \/ isValid(variant, t) = "false"
  \/ t.amount <= 0
  \/ getBalanceOfAddress(chain, t.sender) < t.amount

\* C6: addTransaction(t) with t.isValid() false, or t.amount <= 0, or
\* balanceOf(t.sender) < t.amount returns without throwing and leaves
\* pendingTransactions as it was (addTransaction never assigns chain).
C6_AdmissionGating ==
  \A t \in TxInputs(variant, 0) :
    GateCloses(t) =>
      LET r == addTransaction(variant, chain, pendingTransactions, t)
      IN  r.outcome = "return" /\ r.pendingTransactions = pendingTransactions

\* the transactions of the chain, block after block
RECURSIVE TxsUpTo(_, _)
TxsUpTo(ch, n) ==
  IF n = 0 THEN <<>> ELSE TxsUpTo(ch, n - 1) \o ch[n].transactions

\* the sum of the amounts of the first n transactions of txs that pay to a
RECURSIVE ReceivedIn(_, _, _)
ReceivedIn(txs, a, n) ==
  IF n = 0 THEN 0
  ELSE ReceivedIn(txs, a, n - 1) + (IF txs[n].recipient = a THEN txs[n].amount ELSE 0)

\* the sum of the amounts of the first n transactions of txs that a pays
RECURSIVE SentIn(_, _, _)
SentIn(txs, a, n) ==
  IF n = 0 THEN 0
  ELSE SentIn(txs, a, n - 1) + (IF txs[n].sender = a THEN txs[n].amount ELSE 0)

Received(ch, a) == LET txs == TxsUpTo(ch, Len(ch)) IN ReceivedIn(txs, a, Len(txs))

Sent(ch, a) == LET txs == TxsUpTo(ch, Len(ch)) IN SentIn(txs, a, Len(txs))

IsReward(t, a) == t.sender = NULL /\ t.recipient = a /\ t.amount = mineReward

\* one block was mined, with the reward to A and nothing else
OneRewardToA ==
  /\ Len(chain) = 2
  /\ Len(chain[2].transactions) = 1
  /\ IsReward(chain[2].transactions[1], "A")

\* after that, a transfer of X from A to B was mined with the reward to C
TransferMined(X) ==
  /\ Len(chain) = 3
  /\ Len(chain[2].transactions) = 1
  /\ IsReward(chain[2].transactions[1], "A")
  /\ Len(chain[3].transactions) = 2
  /\ chain[3].transactions[1].sender = "A"
  /\ chain[3].transactions[1].recipient = "B"
  /\ chain[3].transactions[1].amount = X
  /\ IsReward(chain[3].transactions[2], "C")

\* C7: balanceOf(a) is what the transactions of the chain pay to a minus what they
\* take from a, the pool not counted; after one mined block with the reward R to
\* A, balanceOf(A) = R; after a transfer of X from A to B mined in a later block
\* whose reward goes to a third address, balanceOf(A) = R - X and balanceOf(B) = X.
C7_BalanceAccounting ==
  /\ \A a \in Addresses :
       getBalanceOfAddress(chain, a) = Received(chain, a) - Sent(chain, a)
  /\ OneRewardToA => getBalanceOfAddress(chain, "A") = mineReward
  /\ \A X \in Amounts :
       TransferMined(X) =>
         /\ getBalanceOfAddress(chain, "A") = mineReward - X
         /\ getBalanceOfAddress(chain, "B") = X

C7_Witness ==
  /\ TransferMined(60)
  /\ getBalanceOfAddress(chain, "A") = 40
  /\ getBalanceOfAddress(chain, "B") = 60

\* C8: every call minePendingTransactions(a) completes with chain longer by one
\* block, whose transactions are the pool as it was followed by one reward
\* transaction (sender absent, recipient a, amount mineReward), and with the pool
\* empty.
C8_MineAppendsOneBlock ==
  [][\A a \in RewardAddresses :
       MinePendingTransactions(a) =>
         /\ minePendingTransactions(variant, chain, pendingTransactions, a, now).outcome
              = "return"
         /\ Len(chain') = Len(chain) + 1
         /\ LET txs == chain'[Len(chain')].transactions
                n   == Len(pendingTransactions)
            IN  /\ Len(txs) = n + 1
                /\ SubSeq(txs, 1, n) = pendingTransactions
                /\ IsReward(txs[n + 1], a)
         /\ pendingTransactions' = <<>>]_vars

(* ------------------- a caller of Transaction alone --------------------- *)
\* tx is <<>> or holds the one transaction object the caller works on; last is
\* the last call made and how it ended
TxSenders == {"A", "a", "C", NULL}

NewTransaction(s, r, a) ==
  /\ tx' = <<Transaction(variant, s, r, a, now)>>
  /\ last' = [op |-> "new Transaction", outcome |-> "return"]
  /\ UNCHANGED <<variant, now, chain, pendingTransactions, blk, target,
                 arrays, poolRef, txRefs>>

SignTransaction(k) ==
  /\ tx # <<>>
  /\ LET r == signTransaction(variant, tx[1], k)
     IN  /\ tx' = <<r.tx>>
         /\ last' = [op |-> "signTransaction", outcome |-> r.outcome]
  /\ UNCHANGED <<variant, now, chain, pendingTransactions, blk, target,
                 arrays, poolRef, txRefs>>

IsValid ==
  /\ tx # <<>>
  /\ last' = [op |-> "isValid", outcome |-> isValid(variant, tx[1])]
  /\ UNCHANGED <<variant, now, chain, pendingTransactions, tx, blk, target,
                 arrays, poolRef, txRefs>>

NextTx ==
  \/ Tick
  \/ \E s \in TxSenders, r \in Recipients, a \in Amounts : NewTransaction(s, r, a)
  \/ \E k \in KeyPairs : SignTransaction(k)
  \/ IsValid

SpecTx == Init /\ [][NextTx]_vars

SignatureAbsent(t) == t.signature = UndefSig \/ t.signature = NullSig

\* C3: isValid() returns true for every transaction whose sender and signature
\* are absent, and returns false, without throwing, for every transaction whose
\* sender is present and whose signature is absent.
C3_SentinelTrust ==
  (tx # <<>> /\ SignatureAbsent(tx[1])) =>
    isValid(variant, tx[1]) = (IF tx[1].sender = NULL THEN "true" ELSE "false")

\* C4: signing a transaction whose sender is the public identifier of the key,
\* and then calling isValid() on it, returns true.
C4_RoundTrip ==
  [][\A k \in KeyPairs :
       (tx # <<>> /\ getPublic(k) = tx[1].sender /\ SignTransaction(k)) =>
         isValid(variant, tx'[1]) = "true"]_vars

\* C5: signing a transaction with a key whose public identifier differs from
\* the sender throws, and leaves the transaction as it was.
C5_ForeignKeyRejected ==
  [][\A k \in KeyPairs :
       (tx # <<>> /\ getPublic(k) # tx[1].sender /\ SignTransaction(k)) =>
         (last'.outcome = "throw" /\ tx' = tx)]_vars

(* ---------------------- a caller of Block alone ------------------------ *)
\* blk is <<>> or holds the one block the caller works on; target is the
\* difficulty of the last mineBlock call
PreviousHashes == { <<"0">>, sha256(<<"undefined", "0", "0", "undefined">>) }
\* the hash argument of part_000's constructor: null, as minePendingTransactions
\* passes it, '0' as createGenesisBlock does, and a string of seven '1'
GivenHashes == { NullHash, <<"0">>, <<"1", "1", "1", "1", "1", "1", "1">> }

NewBlock_js(p) ==
  /\ variant = "js"
  /\ blk' = <<Block_js(p, <<>>, now)>>
  /\ last' = [op |-> "new Block", outcome |-> "return"]
  /\ UNCHANGED <<variant, now, chain, pendingTransactions, tx, target,
                 arrays, poolRef, txRefs>>

NewBlock_p0(i, p, h) ==
  /\ variant = "p0"
  /\ blk' = <<Block_p0(i, p, <<>>, now, h, 0)>>
  /\ last' = [op |-> "new Block", outcome |-> "return"]
  /\ UNCHANGED <<variant, now, chain, pendingTransactions, tx, target,
                 arrays, poolRef, txRefs>>

\* mineBlock(d) on the block as the constructor left it
MineBlock(d) ==
  /\ blk # <<>>
  /\ last.op = "new Block"
  /\ LET r == mineBlock(variant, blk[1], d)
     IN  /\ blk' = <<r.block>>
         /\ last' = [op |-> "mineBlock", outcome |-> r.outcome]
  /\ target' = d
  /\ UNCHANGED <<variant, now, chain, pendingTransactions, tx,
                 arrays, poolRef, txRefs>>

NextBlock ==
  \/ Tick
  \/ \E p \in PreviousHashes : NewBlock_js(p)
  \/ \E i \in 0..1, p \in PreviousHashes, h \in GivenHashes : NewBlock_p0(i, p, h)
  \/ \E d \in 0..MaxDifficulty : MineBlock(d)

SpecBlock == Init /\ [][NextBlock]_vars

\* C9: whenever mineBlock(d) returns on a freshly constructed block, the first d
\* characters of the block's hash are the target digit and hash equals
\* calculateHash() for the block's final nonce.
C9_MiningTarget ==
  (last.op = "mineBlock" /\ last.outcome = "return") =>
    /\ MeetsTarget(blk[1].hash, target)
    /\ blk[1].hash = Block_calculateHash(blk[1])

(* ------------- a caller that reaches into the ledger's chain ------------ *)
\* The caller builds blocks with the exported classes and pushes them on chain,
\* overwrites the amount of a transaction of a mined block (the line main.js keeps
\* commented out), or replaces chain[0].  last.op says whether the chain was
\* tampered with; after a tampering last.outcome is what isChainValid() returned
\* just before it.
Untouched == last.op \notin {"tamper", "replace"}

\* const b = new Block(...); b.mineBlock(difficulty); bc.chain.push(b)
AppendBlock(txs) ==
  LET latest == getLatestBlock(chain)
      fresh  == IF variant = "js" THEN Block_js(latest.hash, txs, now)
                ELSE Block_p0(latest.index + 1, latest.hash, txs, now, <<"0">>, 0)
      mined  == mineBlock(variant, fresh, difficulty)
  IN  /\ Untouched
      /\ Len(chain) < MaxChain
      /\ chain' = Append(chain, mined.block)
      /\ last' = [op |-> "push", outcome |-> mined.outcome]
      /\ UNCHANGED <<variant, now, pendingTransactions, tx, blk, target,
                     arrays, poolRef, txRefs>>

TamperAmounts == Amounts \cup {1}

\* bc.chain[i - 1].transactions[0].amount = a, on a transaction with a sender
TamperAmount(i, a) ==
  /\ Untouched
  /\ i \in 2..Len(chain)
  /\ chain[i].transactions # <<>>
  /\ chain[i].transactions[1].sender # NULL
  /\ chain[i].transactions[1].amount # a
  /\ chain' = [chain EXCEPT ![i].transactions[1].amount = a]
  /\ last' = [op |-> "tamper", outcome |-> isChainValid(variant, chain, now)]
  /\ UNCHANGED <<variant, now, pendingTransactions, tx, blk, target,
                 arrays, poolRef, txRefs>>

\* blocks to put in the place of chain[0]: a genesis block made now, and the
\* present chain[0] with one field changed
GenesisCandidates ==
  LET g == chain[1]
  IN  { createGenesisBlock(variant, now),
        [g EXCEPT !.index = 1],
        [g EXCEPT !.previousHash = <<"1">>],
        [g EXCEPT !.transactions = <<Transaction(variant, NULL, "A", mineReward, now)>>],
        [g EXCEPT !.timestamp = g.timestamp + 1],
        [g EXCEPT !.hash = <<"1">>],
        [g EXCEPT !.nonce = g.nonce + 1] }

\* bc.chain[0] = b
ReplaceGenesis(b) ==
  /\ Untouched
  /\ b # chain[1]
  /\ chain' = [chain EXCEPT ![1] = b]
  /\ last' = [op |-> "replace", outcome |-> "return"]
  /\ UNCHANGED <<variant, now, pendingTransactions, tx, blk, target,
                 arrays, poolRef, txRefs>>

NextAudit ==
  \/ Tick
  \/ AppendBlock(<<>>)
  \/ \E t \in TxInputs(variant, now) : AppendBlock(<<t>>)
  \/ \E i \in 2..MaxChain, a \in TamperAmounts : TamperAmount(i, a)
  \/ \E b \in GenesisCandidates : ReplaceGenesis(b)

SpecAudit == Init /\ [][NextAudit]_vars

\* C2: from a chain for which isChainValid() is true, changing the amount of a
\* signed transaction of a mined block, such that hasValidTransactions() or the
\* recomputed block hash changes, makes isChainValid() return false; the
\* recomputed block hash is the same as before, and it is
\* hasValidTransactions() that turns false.
C2_TamperDetected ==
  [][\A i \in 2..MaxChain, a \in TamperAmounts :
       ( /\ TamperAmount(i, a)
         /\ isChainValid(variant, chain, now) = "true"
         /\ \/ hasValidTransactions(variant, chain'[i])
                 # hasValidTransactions(variant, chain[i])
            \/ Block_calculateHash(chain'[i]) # Block_calculateHash(chain[i]) )
       => /\ isChainValid(variant, chain', now') = "false"
          /\ Block_calculateHash(chain'[i]) = Block_calculateHash(chain[i])
          /\ hasValidTransactions(variant, chain'[i]) = "false"]_vars

\* a valid chain of three blocks was tampered with in its middle block, and
\* isChainValid() now returns false
C2_Witness ==
  /\ last = [op |-> "tamper", outcome |-> "true"]
  /\ Len(chain) = 3
  /\ chain[2].transactions # <<>>
  /\ isValid(variant, chain[2].transactions[1]) = "false"
  /\ isChainValid(variant, chain, now) = "false"

\* C10: once chain[0] is replaced by a block that differs in any field from the
\* genesis block the ledger was built with, isChainValid() returns false,
\* whatever the rest of the chain is.
C10_GenesisImmutability ==
  chain[1] # createGenesisBlock(variant, 0) =>
    isChainValid(variant, chain, now) = "false"

(* ------------------ more claims about the ledger (Spec) ----------------- *)
\* C11: in every state reached through addTransaction and
\* minePendingTransactions the chain is non-empty and each block after the first
\* holds as previousHash the hash stored in its predecessor; and no step changes
\* the hash stored in a block that is already in the chain.
C11_ChainLinkage ==
  /\ [](/\ Len(chain) >= 1
        /\ \A i \in 2..Len(chain) : chain[i].previousHash = chain[i - 1].hash)
  /\ [][\A i \in 1..Len(chain) :
          i <= Len(chain') /\ chain'[i].hash = chain[i].hash]_vars

\* two blocks were mined after the genesis block, each on the hash of the block
\* before it, and the three hashes differ
C11_Witness ==
  /\ Len(chain) = 3
  /\ chain[2].previousHash = chain[1].hash
  /\ chain[3].previousHash = chain[2].hash
  /\ chain[1].hash # chain[2].hash
  /\ chain[2].hash # chain[3].hash

\* t passes the three gates of addTransaction on the present chain
PassesGates(t) ==
  /\ isValid(variant, t) = "true"
  /\ t.amount > 0
  /\ getBalanceOfAddress(chain, t.sender) >= t.amount

\* C13: addTransaction admits every transaction that passes its gates on the mined
\* blocks, whatever the same sender already has pending; and the block a mining
\* call appends holds the whole pool, so that each address's balance moves by all
\* that the pool and the reward pay to it and take from it, below zero when the
\* pool overdraws.
C13_PoolOverdraw ==
  /\ [](\A t \in TxInputs(variant, 0) :
          PassesGates(t) =>
            addTransaction(variant, chain, pendingTransactions, t).pendingTransactions
              = Append(pendingTransactions, t))
  /\ [][Len(chain') = Len(chain) + 1 =>
          LET txs == chain'[Len(chain')].transactions
          IN  /\ SubSeq(txs, 1, Len(pendingTransactions)) = pendingTransactions
              /\ \A s \in Addresses \ {NULL} :
                    getBalanceOfAddress(chain', s)
                      = getBalanceOfAddress(chain, s)
                          + ReceivedIn(txs, s, Len(txs)) - SentIn(txs, s, Len(txs))]_vars

\* A had the reward of one block, two transfers of 60 from A were both admitted
\* and then mined, and A's balance is below zero
C13_Witness ==
  /\ Len(chain) = 3
  /\ getBalanceOfAddress(SubSeq(chain, 1, 2), "A") = mineReward
  /\ Len(chain[3].transactions) = 3
  /\ chain[3].transactions[1].sender = "A"
  /\ chain[3].transactions[2].sender = "A"
  /\ chain[3].transactions[1].amount + chain[3].transactions[2].amount > mineReward
  /\ getBalanceOfAddress(chain, "A") < 0

RECURSIVE AdmittedOf(_)
\* the transactions of txs that passed the signature gate, in their order: what
\* addTransaction admitted (a reward transaction never passes isValid())
AdmittedOf(txs) ==
  IF txs = <<>> THEN <<>>
  ELSE (IF isValid(variant, Head(txs)) = "true" THEN <<Head(txs)>> ELSE <<>>)
         \o AdmittedOf(Tail(txs))

\* xs is ys or ys with one more element at its end
PushedOn(xs, ys) ==
  \/ xs = ys
  \/ Len(xs) = Len(ys) + 1 /\ SubSeq(xs, 1, Len(ys)) = ys

C15_PoolInvariant ==
  \A j \in 1..Len(pendingTransactions) :
    /\ pendingTransactions[j].sender # NULL
    /\ pendingTransactions[j].amount > 0
    /\ isValid(variant, pendingTransactions[j]) = "true"

\* C16: in every reachable state the block at position i of the chain (counted
\* from 0) has index i, and that index is what calculateHash() hashes.
C16_BlockIndex ==
  \A i \in 1..Len(chain) :
    /\ chain[i].index = i - 1
    /\ Block_calculateHash(chain[i])
         = sha256(NumStr(i - 1) \o HashStr(chain[i].previousHash)
                    \o NumStr(chain[i].timestamp) \o NumOrUndefStr(chain[i].nonce))

RECURSIVE SumBalances(_, _)
\* the sum of getBalanceOfAddress(a) over the addresses of S
SumBalances(ch, S) ==
  IF S = {} THEN 0
  ELSE LET a == CHOOSE x \in S : TRUE
       IN  getBalanceOfAddress(ch, a) + SumBalances(ch, S \ {a})

Deref(ch, refs, arrs) ==
  [i \in 1..Len(ch) |-> [ch[i] EXCEPT !.transactions = arrs[refs[i]]]]

\* minePendingTransactions with its last assignment lost: the pool goes on
\* referring to the array it gave to the block
poolAfterMining_sameArray(arrs, ref) == [arrays |-> arrs, poolRef |-> ref]

\* this.pendingTransactions = []: the pool refers to a new, empty array
poolAfterMining(arrs, ref) ==
  [arrays |-> Append(arrs, <<>>), poolRef |-> Len(arrs) + 1]

RECURSIVE walletTxs(_, _)
walletTxs(txs, address) ==
  IF txs = <<>> THEN <<>>
  ELSE (IF Head(txs).sender = address \/ Head(txs).recipient = address
          THEN <<Head(txs)>> ELSE <<>>) \o walletTxs(Tail(txs), address)

RECURSIVE getAllTransactionForWallet(_, _)
\* getAllTransactionForWallet(address): a new array of the transactions found
getAllTransactionForWallet(ch, address) ==
  IF ch = <<>> THEN <<>>
  ELSE walletTxs(Head(ch).transactions, address)
         \o getAllTransactionForWallet(Tail(ch), address)

\* addTransaction(t): a push on the array the pool refers to
RefAddTransaction(t) ==
  LET r    == addTransaction(variant, chain, pendingTransactions, t)
      arrs == [arrays EXCEPT ![poolRef] = r.pendingTransactions]
  IN  /\ Len(r.pendingTransactions) <= MaxPool
      /\ arrays' = arrs
      /\ chain' = Deref(chain, txRefs, arrs)
      /\ pendingTransactions' = arrs[poolRef]
      /\ last' = [op |-> "addTransaction", outcome |-> r.outcome]
      /\ UNCHANGED <<variant, now, tx, blk, target, poolRef, txRefs>>

\* minePendingTransactions(a): the reward is pushed on the pool's array, the new
\* block is given that same array, and the pool a new one once the block is mined
RefMinePendingTransactions(a) ==
  LET r        == minePendingTransactions(variant, chain, pendingTransactions, a, now)
      rewardTx == Transaction(variant, NULL, a, mineReward, now)
      pushed   == [arrays EXCEPT ![poolRef] = Append(@, rewardTx)]
      after    == poolAfterMining(pushed, poolRef)
  IN  /\ Len(r.chain) <= MaxChain
      /\ IF r.outcome = "return"
           THEN /\ txRefs' = Append(txRefs, poolRef)
                /\ arrays' = after.arrays
                /\ poolRef' = after.poolRef
           ELSE /\ arrays' = pushed
                /\ UNCHANGED <<poolRef, txRefs>>
      /\ chain' = Deref(r.chain, txRefs', arrays')
      /\ pendingTransactions' = arrays'[poolRef']
      /\ Len(pendingTransactions') <= MaxPool
      /\ last' = [op |-> "minePendingTransactions", outcome |-> r.outcome]
      /\ UNCHANGED <<variant, now, tx, blk, target>>

\* the three queries assign nothing of the ledger
Queries == {"getBalanceOfAddress", "getAllTransactionForWallet", "isChainValid"}

GetBalanceOfAddress(a) ==
  /\ getBalanceOfAddress(chain, a) \in Int
  /\ last' = [op |-> "getBalanceOfAddress", outcome |-> "return"]
  /\ UNCHANGED <<variant, now, chain, pendingTransactions, tx, blk, target,
                 arrays, poolRef, txRefs>>

GetAllTransactionForWallet(a) ==
  /\ Len(getAllTransactionForWallet(chain, a)) >= 0
  /\ last' = [op |-> "getAllTransactionForWallet", outcome |-> "return"]
  /\ UNCHANGED <<variant, now, chain, pendingTransactions, tx, blk, target,
                 arrays, poolRef, txRefs>>

IsChainValid ==
  /\ last' = [op |-> "isChainValid",
              outcome |-> IF isChainValid(variant, chain, now) = "throw"
                            THEN "throw" ELSE "return"]
  /\ UNCHANGED <<variant, now, chain, pendingTransactions, tx, blk, target,
                 arrays, poolRef, txRefs>>

NextRefs ==
  \/ \E t \in TxInputs(variant, 0) : RefAddTransaction(t)
  \/ \E a \in RewardAddresses : RefMinePendingTransactions(a)
  \/ \E a \in Addresses : GetBalanceOfAddress(a)
  \/ \E a \in Addresses : GetAllTransactionForWallet(a)
  \/ IsChainValid

SpecRefs == Init /\ [][NextRefs]_vars

\* C12: addTransaction and the three queries leave chain as it was (the queries
\* the pool too); minePendingTransactions only appends: each block already in the
\* chain keeps its position and all its fields, its transactions included; and
\* after every call the pool's array is the array of no block of the chain.
C12_AppendOnly ==
  [][/\ last'.op \in Queries \cup {"addTransaction"} => chain' = chain
     /\ last'.op \in Queries => pendingTransactions' = pendingTransactions
     /\ Len(chain') >= Len(chain)
     /\ SubSeq(chain', 1, Len(chain)) = chain
     /\ \A i \in 1..Len(txRefs') : txRefs'[i] # poolRef']_vars

\* a transaction was admitted to the pool after two blocks were mined, the
\* second of them holding a transfer and its reward
C12_Witness ==
  /\ last = [op |-> "addTransaction", outcome |-> "return"]
  /\ Len(chain) = 3
  /\ Len(chain[3].transactions) = 2
  /\ pendingTransactions # <<>>
  /\ txRefs[3] # poolRef

(* -------------- one more claim about the caller of SpecAudit ------------ *)
RECURSIVE RewardsOf(_)
\* the transactions of txs that have the absent sender
RewardsOf(txs) ==
  IF txs = <<>> THEN <<>>
  ELSE (IF Head(txs).sender = NULL THEN <<Head(txs)>> ELSE <<>>) \o RewardsOf(Tail(txs))

\* C19: whenever isChainValid() returns true, every block after the genesis block
\* holds exactly one transaction of the absent sender, and its amount is
\* mineReward.
C19_RewardIntegrity ==
  isChainValid(variant, chain, now) = "true" =>
    \A i \in 2..Len(chain) :
      /\ Len(RewardsOf(chain[i].transactions)) = 1
      /\ RewardsOf(chain[i].transactions)[1].amount = mineReward

(* --------------- a caller that hands in transactions of no sender -------- *)
\* transactions a caller builds with the absent sender and then sets the
\* signature field of: left as the constructor made it, null, or a signature by
\* the caller's own key
InjectedAmounts == {0 - mineReward, 0, mineReward}

InjectedTransactions(v) ==
  LET built == { Transaction(v, NULL, r, a, 0) : r \in {"A", NULL}, a \in InjectedAmounts }
  IN  built
        \cup { [x EXCEPT !.signature = NullSig] : x \in built }
        \cup { [x EXCEPT !.signature = ec_sign(Transaction_calculateHash(x), "a")] :
               x \in built }

\* transfers of mineReward from A to the absent recipient, signed by A's key:
\* new Transaction(A, null, 100) and signTransaction(key), or the signature set
\* by hand where signTransaction does not sign
TransfersToNobody(v) ==
  LET x == Transaction(v, "A", NULL, mineReward, 0)
  IN  { [x EXCEPT !.signature = ec_sign(Transaction_calculateHash(x), "a")] }

\* addTransaction(t) and minePendingTransactions(a), with room for one more
\* transaction in the pool than in the ledger specification
InjectAddTransaction(t) ==
  LET r == addTransaction(variant, chain, pendingTransactions, t)
  IN  /\ Len(r.pendingTransactions) <= MaxPool + 1
      /\ pendingTransactions' = r.pendingTransactions
      /\ last' = [op |-> "addTransaction", outcome |-> r.outcome]
      /\ UNCHANGED <<variant, now, chain, tx, blk, target, arrays, poolRef, txRefs>>

InjectMinePendingTransactions(a) ==
  LET r == minePendingTransactions(variant, chain, pendingTransactions, a, now)
  IN  /\ Len(r.chain) <= MaxChain
      /\ Len(r.pendingTransactions) <= MaxPool + 1
      /\ chain' = r.chain
      /\ pendingTransactions' = r.pendingTransactions
      /\ last' = [op |-> "minePendingTransactions", outcome |-> r.outcome]
      /\ UNCHANGED <<variant, now, tx, blk, target, arrays, poolRef, txRefs>>

NextInject ==
  \/ \E t \in TransfersToNobody(variant) : InjectAddTransaction(t)
  \/ \E t \in InjectedTransactions(variant) : InjectAddTransaction(t)
  \/ \E a \in RewardAddresses : InjectMinePendingTransactions(a)

SpecInject == Init /\ [][NextInject]_vars

RECURSIVE CountNoSender(_)
\* how many transactions of txs have the absent sender
CountNoSender(txs) ==
  IF txs = <<>> THEN 0
  ELSE (IF Head(txs).sender = NULL THEN 1 ELSE 0) + CountNoSender(Tail(txs))

\* C18: addTransaction adds no caller-built transaction of the absent sender to
\* the pool, whatever its signature field, recipient and amount; and each mined
\* block holds exactly one transaction of the absent sender.
C18_NoInjectedReward ==
  /\ [][\A t \in InjectedTransactions(variant) :
          InjectAddTransaction(t) => pendingTransactions' = pendingTransactions]_vars
  /\ [](\A i \in 2..Len(chain) : CountNoSender(chain[i].transactions) = 1)

====
